---- MODULE Spec2Model ----
(***************************************************************************)
(* Recipe Manager API (src/main.py): a single "recipes" table behind       *)
(* GET/POST/DELETE handlers, and POST /ai-recipe with its local fallback.  *)
(*                                                                         *)
(* Text is modelled as a sequence of tokens.  A token is a run of          *)
(* characters; the characters the handlers' conversions look at (quote,    *)
(* backslash, line break, comma, space, digits, full stop, brackets) are   *)
(* always tokens of their own, so json.dumps / json.loads, ", ".join,      *)
(* str.capitalize and the f-string template are computed token by token.   *)
(***************************************************************************)
EXTENDS Integers, Sequences, FiniteSets, TLC

\* ---------------------------------------------------------------- bounds
\* Largest id the store hands out in the model (the create guard caps it).
MaxId == 3
\* Longest ingredient list posted to /ai-recipe in SpecSuggest.
MaxLen == 2

\* ------------------------------------------------------------ text helpers
Digits == {"0", "1", "2", "3", "4", "5", "6", "7", "8", "9"}

\* Ingredient strings, as token sequences: mixed case, a quote and a
\* backslash, an embedded line break followed by "4.", and the empty string.
Strs == { <<"e", "g", "G">>, <<"o", "\"", "\\">>, <<"\n", "4", ".">>, <<>> }

RECURSIVE SeqsUpTo(_, _)
SeqsUpTo(S, n) ==
    IF n = 0 THEN {<<>>}
    ELSE LET shorter == SeqsUpTo(S, n - 1)
         IN  shorter \cup {Append(l, s) : l \in shorter, s \in S}

ToUpper(c) == IF c = "e" THEN "E" ELSE IF c = "g" THEN "G" ELSE IF c = "o" THEN "O" ELSE c
ToLower(c) == IF c = "E" THEN "e" ELSE IF c = "G" THEN "g" ELSE IF c = "O" THEN "o" ELSE c

\* str.capitalize(): first character upper-cased, the rest lower-cased.
Capitalize(s) ==
    IF s = <<>> THEN <<>>
    ELSE <<ToUpper(s[1])>> \o [i \in 1..(Len(s) - 1) |-> ToLower(s[i + 1])]

\* ", ".join(l)
RECURSIVE Join(_)
Join(l) ==
    IF l = <<>> THEN <<>>
    ELSE IF Len(l) = 1 THEN l[1]
    ELSE l[1] \o <<",", " ">> \o Join(Tail(l))

\* --------------------------------------------------------------- json
\* json.dumps of one character inside a string literal.
EscapeChar(c) ==
    CASE c = "\"" -> <<"\\", "\"">>
      [] c = "\\" -> <<"\\", "\\">>
      [] c = "\n" -> <<"\\", "n">>
      [] OTHER    -> <<c>>

\* An encoder that forgets to escape (what "[" + ", ".join(...) + "]" would do).
EscapeStrNone(s) == s

RECURSIVE EscapeStr(_)
EscapeStr(s) == IF s = <<>> THEN <<>> ELSE EscapeChar(Head(s)) \o EscapeStr(Tail(s))

JsonString(s) == <<"\"">> \o EscapeStr(s) \o <<"\"">>

RECURSIVE JsonItems(_)
JsonItems(l) ==
    IF l = <<>> THEN <<>>
    ELSE IF Len(l) = 1 THEN JsonString(l[1])
    ELSE JsonString(l[1]) \o <<",", " ">> \o JsonItems(Tail(l))

\* json.dumps(List[str]): "[" item ", " item ... "]"
JsonDumps(l) == <<"[">> \o JsonItems(l) \o <<"]">>

\* json.loads raising JSONDecodeError.
DecodeError == <<<<"JSONDecodeError">>>>

\* Scans a string literal from position i (just after its opening quote);
\* returns the decoded string and the position after the closing quote.
RECURSIVE ParseString(_, _, _)
ParseString(t, i, acc) ==
    IF i > Len(t) THEN [ok |-> FALSE, val |-> acc, next |-> i]
    ELSE IF t[i] = "\"" THEN [ok |-> TRUE, val |-> acc, next |-> i + 1]
    ELSE IF t[i] = "\\"
         THEN IF i + 1 > Len(t) THEN [ok |-> FALSE, val |-> acc, next |-> i]
              ELSE IF t[i + 1] = "n" THEN ParseString(t, i + 2, Append(acc, "\n"))
              ELSE IF t[i + 1] \in {"\"", "\\"}
                   THEN ParseString(t, i + 2, Append(acc, t[i + 1]))
              ELSE [ok |-> FALSE, val |-> acc, next |-> i]
    ELSE IF t[i] = "\n" THEN [ok |-> FALSE, val |-> acc, next |-> i]
    ELSE ParseString(t, i + 1, Append(acc, t[i]))

\* Scans the items of an array from position i; expectItem says whether a
\* value (rather than "," or "]") must come next.
RECURSIVE ParseItems(_, _, _, _)
ParseItems(t, i, acc, expectItem) ==
    IF i > Len(t) THEN DecodeError
    ELSE IF t[i] = " " THEN ParseItems(t, i + 1, acc, expectItem)
    ELSE IF expectItem
         THEN IF t[i] = "\""
              THEN LET r == ParseString(t, i + 1, <<>>)
                   IN  IF r.ok THEN ParseItems(t, r.next, Append(acc, r.val), FALSE)
                       ELSE DecodeError
              ELSE IF t[i] = "]" /\ acc = <<>> /\ i = Len(t) THEN acc
              ELSE DecodeError
    ELSE IF t[i] = "," THEN ParseItems(t, i + 1, acc, TRUE)
    ELSE IF t[i] = "]" /\ i = Len(t) THEN acc
    ELSE DecodeError

\* json.loads of a text holding an array of strings.
JsonLoads(t) ==
    IF t # <<>> /\ t[1] = "[" THEN ParseItems(t, 2, <<>>, TRUE) ELSE DecodeError

\* ------------------------------------------------------------- the store
VARIABLES
    db,       \* the committed rows of table "recipes": a set of RecipeDB rows
    apiKey,   \* what os.getenv("GROQ_API_KEY") returns in this process
    last,     \* the request handled last and the response it got
    deleted,  \* history: the ids for which some DELETE has answered 200
    workers   \* the two in-flight DELETE requests of SpecConc

vars == <<db, apiKey, last, deleted, workers>>

Egg    == <<"e", "g", "G">>
Quoted == <<"o", "\"", "\\">>
Inject == <<"\n", "4", ".">>

\* Bodies posted to POST /recipes (RecipeCreate): duplicates, characters
\* json.dumps escapes, an empty string and an empty list.
RecipeInputs ==
    { [name |-> " soup", ingredients |-> <<Quoted, Egg, Egg>>,  steps |-> "boil "],
      [name |-> "",      ingredients |-> <<Inject, <<>>, Inject>>, steps |-> ""],
      [name |-> "Soup",  ingredients |-> <<>>,                  steps |-> "Boil."] }

\* Bodies posted to POST /ai-recipe (IngredientList) in Spec.
SuggestInputs == { <<>>, <<Egg, Quoted>>, <<Inject>> }

Workers == {1, 2}
Ids == 1..MaxId

\* The row a query yields when nothing matches (.first() returning None).
NoRow == [id |-> 0, name |-> "", ingredients |-> <<>>, steps |-> ""]

\* os.getenv: unset, set to the empty string, set to a key.
Unset    == [set |-> FALSE, value |-> <<>>]
EmptyKey == [set |-> TRUE,  value |-> <<>>]
SomeKey  == [set |-> TRUE,  value |-> <<"gsk_key">>]

IdsOf(rows) == {r.id : r \in rows}

MaxOf(S) == IF S = {} THEN 0 ELSE CHOOSE y \in S : \A z \in S : z <= y

\* An id taken from the number of rows.
NextIdByCount(rows) == Cardinality(rows) + 1

\* The id the storage layer assigns to a row inserted without one: the
\* column is an INTEGER PRIMARY KEY of SQLite, with no AUTOINCREMENT, so it
\* is one more than the largest id in the table (1 in an empty table).
NextId(rows) == MaxOf(IdsOf(rows)) + 1

\* A query whose filter is lost.
FindAny(rows, id) == IF rows = {} THEN NoRow ELSE CHOOSE r \in rows : TRUE

\* db.query(RecipeDB).filter(RecipeDB.id == recipe_id).first()
FindById(rows, id) ==
    IF \E r \in rows : r.id = id THEN CHOOSE r \in rows : r.id = id ELSE NoRow

\* A delete that is never committed.
DeleteByPkUncommitted(rows, id) == rows

\* db.delete(row); db.commit(): DELETE FROM recipes WHERE id = :id
DeleteByPk(rows, id) == {r \in rows : r.id # id}

\* A session that flushes its pending attribute changes when it is closed.
SessionCloseFlushing(committed, pending) == pending

\* get_db's finally: db.close().  Attribute assignments made after the last
\* commit (pending) are discarded; the table keeps the committed rows.
SessionClose(committed, pending) == committed

\* The row as the response model (Recipe) serialises it.
Decoded(r) == [r EXCEPT !.ingredients = JsonLoads(@)]

NoWorkers == [w \in Workers |-> [pc |-> "idle", id |-> 0, row |-> NoRow, existed |-> FALSE, status |-> 0]]

Init ==
    /\ db = {}
    /\ apiKey \in {Unset, EmptyKey, SomeKey}
    /\ last = [op |-> "start", arg |-> <<>>, status |-> 0, body |-> [none |-> TRUE],
               calls |-> 0, provider |-> "none"]
    /\ deleted = {}
    /\ workers = NoWorkers

Response(op, arg, status, body) ==
    [op |-> op, arg |-> arg, status |-> status, body |-> body, calls |-> 0, provider |-> "none"]

\* GET /recipes
GetRecipes ==
    LET recipes == db
        loaded  == {Decoded(r) : r \in recipes}
    IN  /\ db' = SessionClose(db, loaded)
        /\ last' = IF \E r \in loaded : r.ingredients = DecodeError
                   THEN Response("list", <<>>, 500, [detail |-> "Internal Server Error"])
                   ELSE Response("list", <<>>, 200, [recipes |-> loaded])
        /\ UNCHANGED <<apiKey, deleted, workers>>

\* POST /recipes
CreateRecipe(recipe) ==
    LET id        == NextId(db)
        db_recipe == [id |-> id, name |-> recipe.name,
                      ingredients |-> JsonDumps(recipe.ingredients), steps |-> recipe.steps]
        committed == db \cup {db_recipe}
        refreshed == FindById(committed, id)
        returned  == Decoded(refreshed)
    IN  /\ id <= MaxId
        /\ db' = SessionClose(committed, (committed \ {refreshed}) \cup {returned})
        /\ last' = Response("create", recipe, 200, [recipe |-> returned])
        /\ UNCHANGED <<apiKey, deleted, workers>>

\* DELETE /recipes/{recipe_id}
DeleteRecipe(recipe_id) ==
    LET db_recipe == FindById(db, recipe_id)
    IN  /\ IF db_recipe = NoRow
           THEN /\ db' = SessionClose(db, db)
                /\ last' = Response("delete", recipe_id, 404, [detail |-> "Recipe not found"])
                /\ deleted' = deleted
           ELSE /\ db' = SessionClose(DeleteByPk(db, db_recipe.id), DeleteByPk(db, db_recipe.id))
                /\ last' = Response("delete", recipe_id, 200,
                                    [message |-> "Recipe deleted successfully"])
                /\ deleted' = deleted \cup {recipe_id}
        /\ UNCHANGED <<apiKey, workers>>

\* ------------------------------------------------------ the suggestion
Styles == {"Roasted", "Pan-Seared", "Gourmet", "Chef's Special"}

\* How the one call of client.chat.completions.create can end: a text, or
\* an exception (connection, status, timeout, or a response without
\* choices[0].message, which raises while the text is read out of it).
ProviderFailures == {"APIConnectionError", "APIStatusError", "APITimeoutError", "IndexError"}
ProviderOutcomes == {"ok"} \cup ProviderFailures

ModelTexts == { <<"Recipe Name: ", "Omelette", "\n">> }

\* if not api_key
KeyMissingOnlyNone(k) == ~k.set

KeyMissing(k) == ~k.set \/ k.value = <<>>

\* except clause that names the provider's status error only.
CaughtStatusOnly(e) == e = "APIStatusError"

\* except Exception: every failure of the call is caught.
Caught(e) == e \in ProviderFailures

\* The headline taken from the last ingredient.
MainIngLast(ingredients) ==
    IF ingredients # <<>> THEN Capitalize(ingredients[Len(ingredients)]) ELSE <<"Vegetable">>

\* data.ingredients[0].capitalize() if data.ingredients else "Vegetable"
MainIng(ingredients) ==
    IF ingredients # <<>> THEN Capitalize(ingredients[1]) ELSE <<"Vegetable">>

FallbackHead(style, main_ing) ==
    <<"Recipe Name: ", style, " ">> \o main_ing \o <<" (Local Chef Mode)", "\n", "\n">>

FallbackNote == <<"Note: [AI Service Busy - Using Local Intelligence]", "\n", "\n">>

StepsHeader == "Preparation Steps (step by step):"

\* A fallback whose first step names the headline ingredient only.
FallbackTextHeadOnly(style, ingredients) ==
    FallbackHead(style, MainIng(ingredients)) \o FallbackNote
    \o <<StepsHeader, "\n">>
    \o <<"1", ".", " Prepare your ">> \o MainIng(ingredients) \o <<".", "\n">>
    \o <<"2", ".", " Saute in a hot pan with oil until tender", ".", "\n">>
    \o <<"3", ".", " Season to taste and serve beautifully", ".", "\n">>

\* fallback_text of the except branch (the accent of "Saute" is dropped).
FallbackText(style, ingredients) ==
    FallbackHead(style, MainIng(ingredients)) \o FallbackNote
    \o <<StepsHeader, "\n">>
    \o <<"1", ".", " Prepare your ">> \o Join(ingredients) \o <<".", "\n">>
    \o <<"2", ".", " Saute in a hot pan with oil until tender", ".", "\n">>
    \o <<"3", ".", " Season to taste and serve beautifully", ".", "\n">>

\* POST /ai-recipe
SuggestAiRecipe(ingredients, outcome, text, style) ==
    /\ db' = SessionClose(db, db)
    /\ last' =
         IF KeyMissing(apiKey)
         THEN Response("ai", ingredients, 400,
                       [detail |-> "GROQ API Key is missing in environment variables."])
         ELSE IF outcome = "ok"
         THEN [Response("ai", ingredients, 200, [suggestion |-> text])
                 EXCEPT !.calls = 1, !.provider = "ok"]
         ELSE IF Caught(outcome)
         THEN [Response("ai", ingredients, 200, [suggestion |-> FallbackText(style, ingredients)])
                 EXCEPT !.calls = 1, !.provider = "failed"]
         ELSE [Response("ai", ingredients, 500, [detail |-> "Internal Server Error"])
                 EXCEPT !.calls = 1, !.provider = "failed"]
    /\ UNCHANGED <<apiKey, deleted, workers>>

Suggest(inputs) ==
    \E ingredients \in inputs, outcome \in ProviderOutcomes, text \in ModelTexts, style \in Styles :
        SuggestAiRecipe(ingredients, outcome, text, style)

\* Requests served one at a time.
Next ==
    \/ GetRecipes
    \/ \E recipe \in RecipeInputs : CreateRecipe(recipe)
    \/ \E recipe_id \in Ids : DeleteRecipe(recipe_id)
    \/ Suggest(SuggestInputs)

Spec == Init /\ [][Next]_vars

\* The suggestion endpoint alone, over every ingredient list up to MaxLen.
NextSuggest == Suggest(SeqsUpTo(Strs, MaxLen))

SpecSuggest == Init /\ [][NextSuggest]_vars

\* ------------------------------------------- two DELETE requests at once
\* def handlers run on the server's thread pool, each with a session of its
\* own (get_db): the SELECT of line 107 and the DELETE + COMMIT of lines
\* 110-111 are separate statements, so two requests interleave between them.
AllIdle == \A w \in Workers : workers[w].pc = "idle"

\* Two DELETE /recipes/{recipe_id} requests for the same id arrive.
ConcurrentDeletes(recipe_id) ==
    /\ AllIdle
    /\ workers' = [w \in Workers |->
                      [pc |-> "find", id |-> recipe_id, row |-> NoRow,
                       existed |-> recipe_id \in IdsOf(db), status |-> 0]]
    /\ UNCHANGED <<db, apiKey, last, deleted>>

\* Line 107-109: the query, and the 404 when it yields nothing.
DeleteFind(w) ==
    /\ workers[w].pc = "find"
    /\ LET db_recipe == FindById(db, workers[w].id)
       IN  workers' = [workers EXCEPT ![w] =
                          IF db_recipe = NoRow
                          THEN [@ EXCEPT !.pc = "done", !.status = 404]
                          ELSE [@ EXCEPT !.pc = "found", !.row = db_recipe]]
    /\ UNCHANGED <<db, apiKey, last, deleted>>

\* Lines 110-112: DELETE ... WHERE id = :id, COMMIT, and the 200.  A DELETE
\* that matches no row is not an error.
DeleteCommit(w) ==
    /\ workers[w].pc = "found"
    /\ LET rest == DeleteByPk(db, workers[w].row.id)
       IN  db' = SessionClose(rest, rest)
    /\ workers' = [workers EXCEPT ![w] = [@ EXCEPT !.pc = "done", !.status = 200]]
    /\ deleted' = deleted \cup {workers[w].id}
    /\ UNCHANGED <<apiKey, last>>

\* Both responses are sent.
DeletesAnswered ==
    /\ \A w \in Workers : workers[w].pc = "done"
    /\ workers' = NoWorkers
    /\ UNCHANGED <<db, apiKey, last, deleted>>

NextConc ==
    \/ AllIdle /\ \E recipe \in RecipeInputs : CreateRecipe(recipe)
    \/ \E recipe_id \in Ids : ConcurrentDeletes(recipe_id)
    \/ \E w \in Workers : DeleteFind(w)
    \/ \E w \in Workers : DeleteCommit(w)
    \/ DeletesAnswered

SpecConc == Init /\ [][NextConc]_vars

\* ----------------------------------------------------- reading a response
IsFallback == last.op = "ai" /\ last.provider = "failed" /\ last.status = 200

Contains(text, sub) ==
    \E i \in 0..(Len(text) - Len(sub)) : SubSeq(text, i + 1, i + Len(sub)) = sub

StartsWith(text, prefix) ==
    Len(prefix) <= Len(text) /\ SubSeq(text, 1, Len(prefix)) = prefix

\* The lines of a text (split at "\n"; the part after the last break too).
RECURSIVE SplitLines(_, _, _)
SplitLines(text, cur, acc) ==
    IF text = <<>> THEN Append(acc, cur)
    ELSE IF Head(text) = "\n" THEN SplitLines(Tail(text), <<>>, Append(acc, cur))
    ELSE SplitLines(Tail(text), Append(cur, Head(text)), acc)

IsNumbered(line) == Len(line) >= 2 /\ line[1] \in Digits /\ line[2] = "."

\* The numbers of the numbered lines that follow the steps header, in order.
RECURSIVE StepNumbers(_, _)
StepNumbers(lines, inSection) ==
    IF lines = <<>> THEN <<>>
    ELSE IF ~inSection THEN StepNumbers(Tail(lines), Head(lines) = <<StepsHeader>>)
    ELSE IF IsNumbered(Head(lines)) THEN <<Head(lines)[1]>> \o StepNumbers(Tail(lines), TRUE)
    ELSE StepNumbers(Tail(lines), TRUE)

HasStepsSection(text) == \E i \in 1..Len(SplitLines(text, <<>>, <<>>)) :
                            SplitLines(text, <<>>, <<>>)[i] = <<StepsHeader>>

NoLineBreak(ingredients) ==
    \A i \in 1..Len(ingredients) : \A j \in 1..Len(ingredients[i]) : ingredients[i][j] # "\n"

\* ------------------------------------------------------------------ C1
\* C1: POST /recipes with ingredients L answers 200 with a record whose
\* ingredients, name and steps are the submitted ones, and a GET /recipes
\* that follows lists a record with the returned id and the same
\* ingredients (same order, same duplicates), name and steps.
C1_RoundTrip ==
    [][ /\ last'.op = "create" =>
             /\ last'.status = 200
             /\ last'.body.recipe.ingredients = last'.arg.ingredients
             /\ last'.body.recipe.name = last'.arg.name
             /\ last'.body.recipe.steps = last'.arg.steps
        /\ (last.op = "create" /\ last'.op = "list") =>
             /\ last'.status = 200
             /\ \E rec \in last'.body.recipes :
                    /\ rec.id = last.body.recipe.id
                    /\ rec.ingredients = last.arg.ingredients
                    /\ rec.name = last.arg.name
                    /\ rec.steps = last.arg.steps
      ]_vars

C1_Witness ==
    /\ last.op = "list" /\ last.status = 200
    /\ \E rec \in last.body.recipes :
          rec.ingredients = <<Quoted, Egg, Egg>> /\ rec.name = " soup"

\* ------------------------------------------------------------------ C2
\* C2 as stated: once a DELETE /recipes/i has answered 200, every later
\* DELETE /recipes/i answers 404.
C2_DeleteTwiceAlways ==
    [][ (last'.op = "delete" /\ last'.arg \in deleted) => last'.status = 404 ]_vars

\* C2 amended: DELETE /recipes/i of a persisted recipe answers 200 with the
\* success message and removes it; a later DELETE /recipes/i answers 404
\* "Recipe not found" unless a POST /recipes in between was assigned the
\* id i again.
C2_DeleteOnce ==
    [][ /\ (last'.op = "delete" /\ last'.arg \in IdsOf(db)) =>
             /\ last'.status = 200
             /\ last'.body = [message |-> "Recipe deleted successfully"]
             /\ last'.arg \notin IdsOf(db')
        /\ (last'.op = "delete" /\ last'.arg \in deleted /\ last'.arg \notin IdsOf(db)) =>
             /\ last'.status = 404
             /\ last'.body = [detail |-> "Recipe not found"]
      ]_vars

C2_Witness ==
    last.op = "delete" /\ last.status = 404 /\ last.arg \in deleted

\* ------------------------------------------------------------------ C5
UniqueIds == \A r1 \in db : \A r2 \in db : r1.id = r2.id => r1 = r2

\* A step rewrites no persisted row: it removes rows, or adds one row
\* whose id no persisted row has.
IdsStable ==
    /\ Cardinality(db' \ db) <= 1
    /\ db' \ db # {} => db \subseteq db'
    /\ \A r \in db' \ db : r.id \notin IdsOf(db)
    /\ last'.op = "create" => last'.body.recipe.id \notin IdsOf(db)

\* C5: no two persisted recipes have the same id, no step changes the id
\* of a persisted recipe, and the id create assigns is the id of no recipe
\* persisted at that moment.
C5_UniqueIds == []UniqueIds /\ [][IdsStable]_vars

C5_Witness == Cardinality(db) = 2 /\ deleted # {} /\ last.op = "create"

\* ------------------------------------------------------------------ C7
\* C7: DELETE /recipes/{id} for an id no persisted recipe has answers 404
\* "Recipe not found" and leaves the persisted recipes as they were.
C7_DeleteUnknown ==
    [][ (last'.op = "delete" /\ last'.arg \notin IdsOf(db)) =>
            /\ last'.status = 404
            /\ last'.body = [detail |-> "Recipe not found"]
            /\ db' = db
      ]_vars

C7_Witness == last.op = "delete" /\ last.status = 404 /\ Cardinality(db) = 2

\* ----------------------------------------------------------------- C10
\* C10: a successful DELETE removes exactly the recipe with that id, POST
\* /recipes adds exactly one recipe, and both leave every other recipe as
\* it was; GET /recipes and POST /ai-recipe leave the table as it was.
C10_Frame ==
    [][ /\ (last'.op = "delete" /\ last'.status = 200) =>
             /\ db' = {r \in db : r.id # last'.arg}
             /\ Cardinality(db \ db') = 1
        /\ last'.op = "create" =>
             /\ db \subseteq db'
             /\ Cardinality(db' \ db) = 1
        /\ last'.op \in {"list", "ai"} => db' = db
      ]_vars

C10_Witness ==
    /\ last.op = "list" /\ last.status = 200
    /\ last.body.recipes # {} /\ last.body.recipes # db
    /\ \A r \in db : r.ingredients = JsonDumps(JsonLoads(r.ingredients))

\* ------------------------------------------------------------------ C3
\* C3: with GROQ_API_KEY unset or empty, POST /ai-recipe answers 400 with
\* the configuration detail for every ingredient list, calls the provider
\* not at all and produces no suggestion.
C3_MissingKey ==
    (last.op = "ai" /\ apiKey \in {Unset, EmptyKey}) =>
        /\ last.status = 400
        /\ last.body = [detail |-> "GROQ API Key is missing in environment variables."]
        /\ last.calls = 0
        /\ last.provider = "none"

C3_Witness == last.op = "ai" /\ apiKey = Unset /\ last.arg = <<>> /\ last.status = 400

C8_ThreeSteps ==
    IsFallback =>
        /\ HasStepsSection(last.body.suggestion)
        /\ StepNumbers(SplitLines(last.body.suggestion, <<>>, <<>>), FALSE) = <<"1", "2", "3">>
        /\ Contains(last.body.suggestion, Join(last.arg))

\* C8 amended: every fallback text has the steps section and contains the
\* comma-joined ingredients; when no ingredient holds a line break, the
\* numbered steps of the section are exactly 1., 2., 3.
C8_ThreeStepsNoBreak ==
    IsFallback =>
        /\ HasStepsSection(last.body.suggestion)
        /\ Contains(last.body.suggestion, <<" Prepare your ">> \o Join(last.arg) \o <<".", "\n">>)
        /\ NoLineBreak(last.arg) =>
             StepNumbers(SplitLines(last.body.suggestion, <<>>, <<>>), FALSE) = <<"1", "2", "3">>

C8_Witness == IsFallback /\ last.arg = <<Egg, Quoted>>

\* ------------------------------------------------------------------ C9
\* C9: a fallback for the empty list answers 200 with the headline
\* "Vegetable"; for a non-empty list the headline is the first ingredient
\* capitalized.
C9_Headline ==
    (last.op = "ai" /\ last.provider = "failed") =>
        /\ last.status = 200
        /\ \E style \in Styles :
              StartsWith(last.body.suggestion,
                         <<"Recipe Name: ", style, " ">>
                         \o (IF last.arg = <<>> THEN <<"Vegetable">> ELSE Capitalize(last.arg[1]))
                         \o <<" (Local Chef Mode)", "\n">>)

C9_Witness == IsFallback /\ last.arg = <<>>

\* ------------------------------------------------------------------ C6
\* C6: two concurrent DELETE requests for one existing id end with exactly
\* one 200 and one 404.
C6_DeletedOnce ==
    ((\A w \in Workers : workers[w].pc = "done") /\ workers[1].existed) =>
        {workers[1].status, workers[2].status} = {200, 404}

====
